---- MODULE Spec2Model ----
(***************************************************************************)
(* Model of src/components/Guides.tsx: the module constant `guides` and    *)
(* the component function Guides(), which maps the list to a grid of       *)
(* cards below a section heading.  The output is the React element tree    *)
(* the function returns; an element is a record of its type, its key, its  *)
(* props and its children, a text child is a "#text" record.               *)
(***************************************************************************)
EXTENDS Integers, Sequences, FiniteSets, TLC

\* Bounds of the exploration: renders performed and link activations logged.
MaxRenders == 3
MaxNav == 2

VARIABLES
    guides,     \* the module-level array `guides`
    pc,         \* position of the (single) JS thread: "idle", "map", "error"
    k,          \* index of the next element guides.map visits (1-based)
    cards,      \* the array guides.map is building
    outputs,    \* the trees returned by the calls of Guides() so far
    nav,        \* navigation requests received by the router so far
    visited,    \* the indices the running (or last) map has visited, in order
    pending     \* renders requested of the framework and not yet started

vars == <<guides, pc, k, cards, outputs, nav, visited, pending>>

\* The key of an element created without a key prop, and the value of a
\* missing array element.
Null == "<null>"
Undefined == [undefined |-> TRUE]

\* A list whose third entry was pasted from the second and kept its route.
guidesInit_DupHref ==
    << [href |-> "/quickstart",
        name |-> "Klever Wallet",
        description |-> "How to integrate with Klever Wallet browser."],
       [href |-> "/transfer",
        name |-> "Transfer",
        description |-> "How to transfer with Klever Blockchain."],
       [href |-> "/transfer",
        name |-> "NFT",
        description |-> "How to create a NFT."],
       [href |-> "/create-token",
        name |-> "Create Token",
        description |-> "How to create a token with Klever Blockchain."] >>

\* A list whose third entry lost the leading slash of its route and its
\* description.
guidesInit_BadEntry ==
    << [href |-> "/quickstart",
        name |-> "Klever Wallet",
        description |-> "How to integrate with Klever Wallet browser."],
       [href |-> "/transfer",
        name |-> "Transfer",
        description |-> "How to transfer with Klever Blockchain."],
       [href |-> "errors",
        name |-> "NFT",
        description |-> ""],
       [href |-> "/create-token",
        name |-> "Create Token",
        description |-> "How to create a token with Klever Blockchain."] >>

\* The array literal of Guides.tsx:4-27, the value of `guides` at module load.
guidesInit ==
    << [href |-> "/quickstart",
        name |-> "Klever Wallet",
        description |-> "How to integrate with Klever Wallet browser."],
       [href |-> "/transfer",
        name |-> "Transfer",
        description |-> "How to transfer with Klever Blockchain."],
       [href |-> "/errors",
        name |-> "NFT",
        description |-> "How to create a NFT."],
       [href |-> "/create-token",
        name |-> "Create Token",
        description |-> "How to create a token with Klever Blockchain."] >>

\* A JSX text child.
Text(s) == [type |-> "#text", text |-> s]

\* guides[i] as JavaScript reads it: undefined outside the array.
Get(O, i) == IF i \in DOMAIN O THEN O[i] ELSE Undefined

\* A card title that shows the route instead of the name.
CardTitle_Href(guide) ==
    [type |-> "h3",
     key |-> Null,
     className |-> "text-sm font-semibold text-zinc-900 dark:text-white",
     children |-> << Text(guide.href) >>]

\* The card's title, Guides.tsx:53-55.
CardTitle(guide) ==
    [type |-> "h3",
     key |-> Null,
     className |-> "text-sm font-semibold text-zinc-900 dark:text-white",
     children |-> << Text(guide.name) >>]

\* A card body that shows the name a second time.
CardBody_Name(guide) ==
    [type |-> "p",
     key |-> Null,
     className |-> "mt-1 text-sm text-zinc-600 dark:text-zinc-400",
     children |-> << Text(guide.name) >>]

\* The card's body, Guides.tsx:56-58.
CardBody(guide) ==
    [type |-> "p",
     key |-> Null,
     className |-> "mt-1 text-sm text-zinc-600 dark:text-zinc-400",
     children |-> << Text(guide.description) >>]

\* A link control that is drawn as a filled button for the first guide.
CardLink_VariantByEntry(guide) ==
    [type |-> "p",
     key |-> Null,
     className |-> "mt-4",
     children |-> <<
        [type |-> "Button",
         key |-> Null,
         href |-> guide.href,
         variant |-> IF guide.href = "/quickstart" THEN "filled" ELSE "text",
         arrow |-> "right",
         children |-> << Text("Read more") >>] >>]

\* A link control with a pasted route instead of the entry's.
CardLink_FixedHref(guide) ==
    [type |-> "p",
     key |-> Null,
     className |-> "mt-4",
     children |-> <<
        [type |-> "Button",
         key |-> Null,
         href |-> "/quickstart",
         variant |-> "text",
         arrow |-> "right",
         children |-> << Text("Read more") >>] >>]

\* The card's link control, Guides.tsx:59-63.
CardLink(guide) ==
    [type |-> "p",
     key |-> Null,
     className |-> "mt-4",
     children |-> <<
        [type |-> "Button",
         key |-> Null,
         href |-> guide.href,
         variant |-> "text",
         arrow |-> "right",
         children |-> << Text("Read more") >>] >>]

\* The arrow function of guides.map, Guides.tsx:51-65: one card per guide.
Card(guide) ==
    [type |-> "div",
     key |-> guide.href,
     children |-> << CardTitle(guide), CardBody(guide), CardLink(guide) >>]

\* A tree that puts the grid above the heading.
GuidesTree_GridFirst(cs) ==
    [type |-> "div",
     key |-> Null,
     className |-> "my-16 xl:max-w-none",
     children |-> <<
        [type |-> "div",
         key |-> Null,
         className |-> "not-prose mt-4 grid grid-cols-1 gap-8 border-t border-zinc-900/5 pt-10 dark:border-white/5 sm:grid-cols-2 xl:grid-cols-4",
         children |-> cs],
        [type |-> "Heading",
         key |-> Null,
         level |-> 2,
         id |-> "guides",
         children |-> << Text("Guides") >>] >>]

\* The element Guides() returns, Guides.tsx:45-68, around the mapped cards.
GuidesTree(cs) ==
    [type |-> "div",
     key |-> Null,
     className |-> "my-16 xl:max-w-none",
     children |-> <<
        [type |-> "Heading",
         key |-> Null,
         level |-> 2,
         id |-> "guides",
         children |-> << Text("Guides") >>],
        [type |-> "div",
         key |-> Null,
         className |-> "not-prose mt-4 grid grid-cols-1 gap-8 border-t border-zinc-900/5 pt-10 dark:border-white/5 sm:grid-cols-2 xl:grid-cols-4",
         children |-> cs] >>]

\* Readers of the returned tree, following the nesting of Guides.tsx:46-67:
\* the grid is the root's second child, a card's children are the h3, the
\* description paragraph and the paragraph holding the Button.
HeadingOf(tree) == tree.children[1]
GridOf(tree) == tree.children[2]
CardsOf(tree) == GridOf(tree).children
TitleOf(card) == card.children[1].children[1].text
BodyOf(card) == card.children[2].children[1].text
ControlOf(card) == card.children[3].children[1]
LabelOf(card) == ControlOf(card).children[1].text
TargetOf(card) == ControlOf(card).href

\* The tree on screen: the one the latest render returned.
Mounted == outputs[Len(outputs)]

\* A map that runs one index past the end of the array.
MapDone_OffByOne == k > Len(guides) + 1

\* A map that stops one element short.
MapDone_Early == k >= Len(guides)

\* guides.map has visited every index of the array.
MapDone == k > Len(guides)

Init ==
    /\ guides = guidesInit
    /\ pc = "idle"
    /\ k = 1
    /\ cards = <<>>
    /\ outputs = <<>>
    /\ nav = <<>>
    /\ visited = <<>>
    /\ pending = 0

\* A render that can start while another is inside its map and that
\* collects its cards in an array shared by all renders.
GuidesCall_Reentrant ==
    /\ pc # "error"
    /\ pending > 0
    /\ pending' = pending - 1
    /\ pc' = "map"
    /\ k' = 1
    /\ cards' = cards
    /\ visited' = <<>>
    /\ UNCHANGED <<guides, outputs, nav>>

\* A map that starts at the second element.
GuidesCall_SkipFirst ==
    /\ pc = "idle"
    /\ pending > 0
    /\ pending' = pending - 1
    /\ pc' = "map"
    /\ k' = 2
    /\ cards' = <<>>
    /\ visited' = <<>>
    /\ UNCHANGED <<guides, outputs, nav>>

\* A render that reverses the array in place before mapping it
\* (guides.reverse().map(...)).
GuidesCall_Reverse ==
    /\ pc = "idle"
    /\ pending > 0
    /\ pending' = pending - 1
    /\ pc' = "map"
    /\ k' = 1
    /\ cards' = <<>>
    /\ visited' = <<>>
    /\ guides' = [i \in 1..Len(guides) |-> guides[Len(guides) + 1 - i]]
    /\ UNCHANGED <<outputs, nav>>

\* The framework calls Guides() for a requested render, which it does only
\* when no JavaScript is running: evaluation reaches guides.map (line 51),
\* which starts a fresh result array at index 0.
GuidesCall ==
    /\ pc = "idle"
    /\ pending > 0
    /\ pending' = pending - 1
    /\ pc' = "map"
    /\ k' = 1
    /\ cards' = <<>>
    /\ visited' = <<>>
    /\ UNCHANGED <<guides, outputs, nav>>

\* A map that drops an entry whose href an earlier card already has as key.
MapCallback_Dedup ==
    /\ pc = "map"
    /\ ~MapDone
    /\ IF Get(guides, k) = Undefined
         THEN /\ pc' = "error"
              /\ UNCHANGED <<k, cards>>
         ELSE /\ cards' = IF \E c \in 1..Len(cards) : cards[c].key = Get(guides, k).href
                             THEN cards
                             ELSE Append(cards, Card(Get(guides, k)))
              /\ k' = k + 1
              /\ pc' = pc
    /\ visited' = Append(visited, k)
    /\ UNCHANGED <<guides, outputs, nav, pending>>

\* A loop that consumes the array while it maps it (guides.shift()).
MapCallback_Shift ==
    /\ pc = "map"
    /\ ~MapDone
    /\ IF Get(guides, k) = Undefined
         THEN /\ pc' = "error"
              /\ UNCHANGED <<k, cards, guides>>
         ELSE /\ cards' = Append(cards, Card(Get(guides, k)))
              /\ guides' = Tail(guides)
              /\ k' = k
              /\ pc' = pc
    /\ visited' = Append(visited, k)
    /\ UNCHANGED <<outputs, nav, pending>>

\* A map that puts each new card in front of the earlier ones.
MapCallback_Prepend ==
    /\ pc = "map"
    /\ ~MapDone
    /\ IF Get(guides, k) = Undefined
         THEN /\ pc' = "error"
              /\ UNCHANGED <<k, cards>>
         ELSE /\ cards' = << Card(Get(guides, k)) >> \o cards
              /\ k' = k + 1
              /\ pc' = pc
    /\ visited' = Append(visited, k)
    /\ UNCHANGED <<guides, outputs, nav, pending>>

\* One call of the arrow function by guides.map.  Reading guide.href of an
\* undefined element throws a TypeError, which aborts the render.
MapCallback ==
    /\ pc = "map"
    /\ ~MapDone
    /\ IF Get(guides, k) = Undefined
         THEN /\ pc' = "error"
              /\ UNCHANGED <<k, cards>>
         ELSE /\ cards' = Append(cards, Card(Get(guides, k)))
              /\ k' = k + 1
              /\ pc' = pc
    /\ visited' = Append(visited, k)
    /\ UNCHANGED <<guides, outputs, nav, pending>>

\* guides.map is done and Guides() returns the tree.
GuidesReturn ==
    /\ pc = "map"
    /\ MapDone
    /\ outputs' = Append(outputs, GuidesTree(cards))
    /\ pc' = "idle"
    /\ UNCHANGED <<guides, k, cards, nav, visited, pending>>

\* The reader activates the link control of card i of the mounted tree: the
\* Button hands its href to the router.  Handlers run only between renders.
Activate(i) ==
    /\ pc = "idle"
    /\ outputs # <<>>
    /\ Len(nav) < MaxNav
    /\ i \in 1..Len(CardsOf(Mounted))
    /\ nav' = Append(nav, [card |-> i, href |-> TargetOf(CardsOf(Mounted)[i])])
    /\ UNCHANGED <<guides, pc, k, cards, outputs, visited, pending>>

\* A render of the component is requested (first mount, an update of the
\* page around it).  Requests can arrive at any moment, also while a render
\* is running; they wait until the framework calls Guides().
RequestRender ==
    /\ Len(outputs) + pending + (IF pc = "idle" THEN 0 ELSE 1) < MaxRenders
    /\ pending' = pending + 1
    /\ UNCHANGED <<guides, pc, k, cards, outputs, nav, visited>>

Next ==
    \/ RequestRender
    \/ GuidesCall
    \/ MapCallback
    \/ GuidesReturn
    \/ \E i \in 1..Len(guides) + 1 : Activate(i)

Spec == Init /\ [][Next]_vars

\* Rendering is synchronous: once Guides() is called, the map and the
\* return run to completion without yielding.
FairSpec == Spec /\ WF_vars(MapCallback) /\ WF_vars(GuidesReturn)

\* The same component over a list substituted for the array literal: any
\* list of up to MaxLen entries of a pool in which entries share an href, a
\* name or a description, the empty list, and the literal itself.
MaxLen == 3

EntryPool ==
    { [href |-> "/a", name |-> "A", description |-> "x"],
      [href |-> "/a", name |-> "B", description |-> "x"],
      [href |-> "/b", name |-> "A", description |-> "y"] }

SubstLists ==
    UNION { [1..n -> EntryPool] : n \in 0..MaxLen } \cup { guidesInit }

SubstInit ==
    /\ guides \in SubstLists
    /\ pc = "idle"
    /\ k = 1
    /\ cards = <<>>
    /\ outputs = <<>>
    /\ nav = <<>>
    /\ visited = <<>>
    /\ pending = 0

SubstSpec == SubstInit /\ [][Next]_vars

----------------------------------------------------------------------------
\* Vocabulary of the properties.

\* The renders completed so far.
Renders == 1..Len(outputs)

\* Card c shows exactly the three fields of entry g.
Shows(card, g) ==
    /\ TitleOf(card) = g.name
    /\ BodyOf(card) = g.description
    /\ TargetOf(card) = g.href

\* The positions of the cards of tree t that show entry g.
MatchingCards(t, g) ==
    {c \in 1..Len(CardsOf(t)) : Shows(CardsOf(t)[c], g)}

----------------------------------------------------------------------------
\* C1: for every entry of the guides list, every tree Guides() returns holds
\* exactly one card whose title is the entry's name, whose body is its
\* description and whose link target is its href; and every card of the
\* tree shows the three fields of one entry, never a mix of two.
C1_OneCardPerEntry ==
    \A r \in Renders :
        /\ \A e \in 1..Len(guides) :
              Cardinality(MatchingCards(outputs[r], guides[e])) = 1
        /\ \A c \in 1..Len(CardsOf(outputs[r])) :
              \E e \in 1..Len(guides) : Shows(CardsOf(outputs[r])[c], guides[e])

\* A render has returned a tree whose third card is the NFT entry in full.
C1_Witness ==
    /\ outputs # <<>>
    /\ Len(CardsOf(Mounted)) >= 3
    /\ Shows(CardsOf(Mounted)[3],
             [href |-> "/errors", name |-> "NFT",
              description |-> "How to create a NFT."])

\* C2: every tree Guides() returns has as many cards as the guides list has
\* entries, and that number is 4.
C2_CardCount ==
    \A r \in Renders :
        /\ Len(CardsOf(outputs[r])) = Len(guides)
        /\ Len(CardsOf(outputs[r])) = 4

\* Two renders have returned, the second with four cards.
C2_Witness ==
    /\ Len(outputs) >= 2
    /\ Len(CardsOf(outputs[2])) = 4

\* C3: in every returned tree the card of entry i stands before the card of
\* entry i+1, for every adjacent pair of the list; the titles read Klever
\* Wallet, Transfer, NFT, Create Token.
C3_RenderOrder ==
    \A r \in Renders :
        /\ \A i \in 1..(Len(guides) - 1) :
              /\ MatchingCards(outputs[r], guides[i]) # {}
              /\ MatchingCards(outputs[r], guides[i + 1]) # {}
              /\ \A c1 \in MatchingCards(outputs[r], guides[i]) :
                    \A c2 \in MatchingCards(outputs[r], guides[i + 1]) : c1 < c2
        /\ [c \in 1..Len(CardsOf(outputs[r])) |-> TitleOf(CardsOf(outputs[r])[c])]
              = << "Klever Wallet", "Transfer", "NFT", "Create Token" >>

\* A returned tree has Transfer second and NFT third.
C3_Witness ==
    /\ outputs # <<>>
    /\ Len(CardsOf(Mounted)) = 4
    /\ TitleOf(CardsOf(Mounted)[2]) = "Transfer"
    /\ TitleOf(CardsOf(Mounted)[3]) = "NFT"

\* C4: Guides() is deterministic: whatever renders and activations came
\* before, every render returns the tree the first render returned, so no
\* two executions of the component differ.
C4_Deterministic ==
    \A r1 \in Renders : \A r2 \in Renders : outputs[r1] = outputs[r2]

\* A third render has returned after a link was activated.
C4_Witness ==
    /\ Len(outputs) >= 3
    /\ nav # <<>>

\* C5: every returned tree has a card titled "Transfer" with the body "How
\* to transfer with Klever Blockchain." and a control labelled "Read more"
\* whose target is "/transfer".
C5_TransferCard ==
    \A r \in Renders :
        \E c \in 1..Len(CardsOf(outputs[r])) :
            /\ TitleOf(CardsOf(outputs[r])[c]) = "Transfer"
            /\ BodyOf(CardsOf(outputs[r])[c]) = "How to transfer with Klever Blockchain."
            /\ LabelOf(CardsOf(outputs[r])[c]) = "Read more"
            /\ TargetOf(CardsOf(outputs[r])[c]) = "/transfer"

\* A returned tree whose second card is built from the Transfer entry.
C5_Witness ==
    /\ outputs # <<>>
    /\ Len(CardsOf(Mounted)) >= 2
    /\ CardsOf(Mounted)[2].key = "/transfer"
    /\ guides[2].name = "Transfer"

\* The nodes of a tree in document order (a node before its children, the
\* children left to right).
RECURSIVE Flatten(_), FlattenAll(_)
Flatten(n) ==
    IF "children" \in DOMAIN n THEN << n >> \o FlattenAll(n.children) ELSE << n >>
FlattenAll(ns) ==
    IF ns = <<>> THEN <<>> ELSE Flatten(Head(ns)) \o FlattenAll(Tail(ns))

\* A section heading is a Heading element; a card is an element the map
\* callback made, the only elements that carry a key.
IsHeading(n) == n.type = "Heading"
IsCard(n) == "key" \in DOMAIN n /\ n.key # Null

\* The positions in document order of the nodes of t that satisfy P.
Positions(t, P(_)) ==
    LET ns == Flatten(t) IN {i \in 1..Len(ns) : P(ns[i])}

\* C6: every returned tree has exactly one section heading, of level 2, id
\* "guides" and text "Guides"; it is the first child of the root and the
\* grid container is the second and last; the grid's children are all the
\* cards of the tree, so no card is outside the grid or before the heading.
C6_HeadingThenGrid ==
    \A r \in Renders :
        LET t == outputs[r] IN
        /\ Cardinality(Positions(t, IsHeading)) = 1
        /\ Len(t.children) = 2
        /\ IsHeading(HeadingOf(t))
        /\ HeadingOf(t).level = 2
        /\ HeadingOf(t).id = "guides"
        /\ HeadingOf(t).children = << Text("Guides") >>
        /\ GridOf(t).type = "div"
        /\ \A c \in 1..Len(CardsOf(t)) : IsCard(CardsOf(t)[c])
        /\ Cardinality(Positions(t, IsCard)) = Len(CardsOf(t))
        /\ \A h \in Positions(t, IsHeading) :
              \A c \in Positions(t, IsCard) : h < c

\* A returned tree whose document order has the heading, its text, the grid
\* and then the first card.
C6_Witness ==
    /\ outputs # <<>>
    /\ Positions(Mounted, IsHeading) = {2}
    /\ 5 \in Positions(Mounted, IsCard)

\* A relative route: it starts with one slash and has neither an empty
\* segment nor a blank in it.
ValidRoute(s) ==
    /\ Len(s) >= 1
    /\ SubSeq(s, 1, 1) = "/"
    /\ \A i \in 1..Len(s) : SubSeq(s, i, i) # " "
    /\ \A i \in 1..(Len(s) - 1) : SubSeq(s, i, i + 1) # "//"

\* C7: every entry of the guides list has a valid relative route as href and
\* a non-empty name and description.
C7_EntryInvariant ==
    \A e \in 1..Len(guides) :
        /\ ValidRoute(guides[e].href)
        /\ guides[e].name # ""
        /\ guides[e].description # ""

\* The list has been rendered and its NFT entry has a route and the two texts.
C7_Witness ==
    /\ outputs # <<>>
    /\ Len(guides) >= 3
    /\ guides[3].name = "NFT"
    /\ Len(guides[3].href) > 1
    /\ Len(guides[3].description) > 1

\* C8: the guides list is immutable: after any renders and activations it
\* has the length, the entries and the order it had at module load.
C8_ListImmutable ==
    /\ Len(guides) = Len(guidesInit)
    /\ \A e \in 1..Len(guidesInit) : guides[e] = guidesInit[e]

\* Two renders and two activations have happened.
C8_Witness ==
    /\ Len(outputs) >= 2
    /\ Len(nav) >= 2

\* C9: the steps of a render change neither the list nor the navigation
\* log; the log grows only between renders, by one request, and the request
\* made through the control of card i targets guides[i].href and the href
\* of no other entry.
C9_NavigationOnlyOnActivation ==
    [][ /\ (pc # "idle" \/ pc' # "idle") => (nav' = nav /\ guides' = guides)
        /\ (nav' # nav) =>
              /\ pc = "idle" /\ pc' = "idle"
              /\ outputs' = outputs
              /\ Len(nav') = Len(nav) + 1
              /\ SubSeq(nav', 1, Len(nav)) = nav
              /\ LET n == nav'[Len(nav')] IN
                    /\ n.card \in 1..Len(guides)
                    /\ n.href = guides[n.card].href
                    /\ \A j \in (1..Len(guides)) \ {n.card} :
                          n.href # guides[j].href ]_vars

\* The control of the third card was activated and then the control of
\* another card.
C9_Witness ==
    /\ Len(nav) >= 2
    /\ nav[1].card = 3
    /\ nav[1].href = "/errors"
    /\ nav[2].card # 3

\* A complete tree: heading and grid, one card per entry, every card with
\* its title, its body and its link control.
FullTree(t) ==
    /\ Len(t.children) = 2
    /\ IsHeading(HeadingOf(t))
    /\ Len(CardsOf(t)) = Len(guides)
    /\ \A c \in 1..Len(CardsOf(t)) :
          /\ Len(CardsOf(t)[c].children) = 3
          /\ CardsOf(t)[c].children[1].type = "h3"
          /\ CardsOf(t)[c].children[2].type = "p"
          /\ ControlOf(CardsOf(t)[c]).type = "Button"

\* C10: Guides() has no error outcome: no render reaches the error state,
\* every render that was started returns, and every tree returned is
\* complete.
C10_NoErrorOutcome ==
    /\ [](pc # "error")
    /\ [](\A r \in Renders : FullTree(outputs[r]))
    /\ \A n \in 0..MaxRenders :
          (pc = "map" /\ Len(outputs) = n) ~> (pc = "idle" /\ Len(outputs) = n + 1)

\* A render has visited the last entry, and an earlier one has returned.
C10_Witness ==
    /\ pc = "map"
    /\ k = Len(guides) + 1
    /\ Len(cards) = 4
    /\ outputs # <<>>

\* C11: the cards are the element-wise map of the list, with no filtering,
\* sorting or deduplication: for any list put in place of the constant
\* (entries sharing an href, a name or a description, equal entries, the
\* empty list), every returned tree has as many cards as the list has
\* entries and card c carries the key, title, body and target of entry c.
C11_ElementwiseMap ==
    \A r \in Renders :
        /\ Len(CardsOf(outputs[r])) = Len(guides)
        /\ \A c \in 1..Len(guides) :
              /\ CardsOf(outputs[r])[c].key = guides[c].href
              /\ Shows(CardsOf(outputs[r])[c], guides[c])

\* A list whose first two entries are equal and whose third shares only the
\* name with them has been rendered to three cards.
C11_Witness ==
    /\ outputs # <<>>
    /\ Len(guides) = 3
    /\ guides[1] = guides[2]
    /\ guides[3].name = guides[1].name
    /\ guides[3].href # guides[1].href
    /\ Len(CardsOf(Mounted)) = 3

\* The indices 1..n in increasing order.
UpTo(n) == [i \in 1..n |-> i]

\* C12: a render is a single pass over the list: while the map runs, the
\* indices visited so far are 1, 2, ... up to the one before the next, each
\* once; when the render has returned, the visits are exactly the indices
\* of the list in order; and every render that has started returns.
C12_SinglePass ==
    /\ [](pc = "map" => (k <= Len(guides) + 1 /\ visited = UpTo(k - 1)))
    /\ []((pc = "idle" /\ outputs # <<>>) => visited = UpTo(Len(guides)))
    /\ (pc = "map") ~> (pc = "idle")

\* The second render is halfway through the list.
C12_Witness ==
    /\ pc = "map"
    /\ Len(outputs) = 1
    /\ visited = << 1, 2 >>

\* C13: a render is one synchronous step.  Whatever the interleaving of the
\* render requests, a render starts only when none is running; while it
\* runs, its array holds the cards of the entries it has visited and
\* nothing else, and only grows by its own next card; a tree is returned
\* only by the running render and is the complete heading-plus-4-cards
\* tree.
C13_SynchronousRender ==
    /\ [](pc = "map" =>
            /\ Len(cards) = k - 1
            /\ \A c \in 1..Len(cards) : Shows(cards[c], guides[c]))
    /\ [](\A r \in Renders :
            /\ FullTree(outputs[r])
            /\ Len(CardsOf(outputs[r])) = 4
            /\ \A c \in 1..4 : Shows(CardsOf(outputs[r])[c], guides[c]))
    /\ [][ /\ (pending' < pending) => (pc = "idle" /\ pc' = "map" /\ cards' = <<>>)
           /\ (pc = "map" /\ pc' = "map") =>
                 (cards' = cards \/ (k' = k + 1 /\ cards' = Append(cards, Card(guides[k]))))
           /\ (outputs' # outputs) =>
                 (pc = "map" /\ pc' = "idle" /\ outputs' = Append(outputs, GuidesTree(cards))) ]_vars

\* Two more renders were requested while a render is halfway through its map.
C13_Witness ==
    /\ pc = "map"
    /\ pending >= 2
    /\ Len(cards) = 2

\* A link control is a Button element.
IsControl(n) == n.type = "Button"

\* C14: every card of every returned tree has exactly one link control,
\* with the label "Read more", the variant "text" and the arrow "right",
\* whatever the entry it was built from.
C14_UniformControl ==
    \A r \in Renders :
        \A c \in 1..Len(CardsOf(outputs[r])) :
            LET card == CardsOf(outputs[r])[c] IN
            /\ Cardinality(Positions(card, IsControl)) = 1
            /\ IsControl(ControlOf(card))
            /\ ControlOf(card).children = << Text("Read more") >>
            /\ ControlOf(card).variant = "text"
            /\ ControlOf(card).arrow = "right"

\* A returned tree with two cards of different entries, each with its control.
C14_Witness ==
    /\ outputs # <<>>
    /\ Len(CardsOf(Mounted)) >= 2
    /\ TitleOf(CardsOf(Mounted)[1]) # TitleOf(CardsOf(Mounted)[2])
    /\ TargetOf(CardsOf(Mounted)[1]) # TargetOf(CardsOf(Mounted)[2])
    /\ LabelOf(CardsOf(Mounted)[2]) = "Read more"

\* C15: the hrefs of the guides list are pairwise distinct, so in every
\* returned tree the keys of the sibling cards are pairwise distinct and
\* each key is the href of exactly one entry.
C15_UniqueKeys ==
    /\ \A i \in 1..Len(guides) : \A j \in 1..Len(guides) :
          i # j => guides[i].href # guides[j].href
    /\ \A r \in Renders :
          /\ \A c1 \in 1..Len(CardsOf(outputs[r])) :
                \A c2 \in 1..Len(CardsOf(outputs[r])) :
                    c1 # c2 => CardsOf(outputs[r])[c1].key # CardsOf(outputs[r])[c2].key
          /\ \A c \in 1..Len(CardsOf(outputs[r])) :
                Cardinality({e \in 1..Len(guides) :
                                guides[e].href = CardsOf(outputs[r])[c].key}) = 1

\* A returned tree whose four cards carry the four routes as keys.
C15_Witness ==
    /\ outputs # <<>>
    /\ {CardsOf(Mounted)[c].key : c \in 1..Len(CardsOf(Mounted))}
          = {"/quickstart", "/transfer", "/errors", "/create-token"}
====
